---- MODULE Spec2Model ----
(***************************************************************************)
(* Conversation relay of the Telegram/Mistral chatbot gateway:             *)
(*   - the two storage adapters (MemoryAdapter, DynamoAdapter),            *)
(*   - the completion client (MistralClient.get_completion),               *)
(*   - the relay (TelegramService.process_message),                        *)
(*   - the dispatch of platform updates (ChatController                    *)
(*     .handle_webhook_update and the polling handlers of TelegramService).*)
(* Strings of the form f'CHAT#{chat_id}' / f'MSG#{timestamp}' are modelled *)
(* as pairs <<prefix, number>>; millisecond timestamps have 13 digits, so  *)
(* the store's lexicographic order on sort keys is the numeric order.      *)
(***************************************************************************)
EXTENDS Integers, Sequences, FiniteSets, TLC

VARIABLES
    backend,        \* "memory" | "dynamo": adapter injected at start-up
    conversations,  \* MemoryAdapter.conversations: chat_id -> list of messages
    table,          \* DynamoAdapter.table: set of items, unique on (PK, SK)
    now,            \* latest int(time.time() * 1000) read by a Dynamo save
    processes,      \* processes sharing the store (1: a single event loop)
    calls,          \* process_message invocations in progress, per slot
    started,        \* number of process_message invocations started
    directs,        \* number of direct adapter writes (save/reset) made
    reset,          \* the reset_conversation call in progress, if any
    saved,          \* history: per chat, the saves that returned without
                    \* error since the last reset, in call order
    resetRun,       \* history: per chat, successful resets in a row with
                    \* no save after them (counted up to 2); -1 once a
                    \* reset raised, until a later reset succeeds
    chat_mode,      \* TelegramService.chat_mode: chat_id -> bool
    outbox,         \* calls made to the platform to send something to a
                    \* chat (send_message, reply_text, ...), in call order
    update,         \* the update handler in progress, if any
    twin,           \* a second gateway given the same updates, which may
                    \* differ in its chat_mode: its chat_mode, and what
                    \* its handler did on entry for the last update
    deployment      \* the application built by create_app: its environment
                    \* and the inbound channels its startup has activated

gatewayVars == <<chat_mode, outbox, update, twin, deployment>>

vars == <<backend, conversations, table, now, processes, calls, started,
          directs, reset, saved, resetRun, chat_mode, outbox, update,
          twin, deployment>>

(***************************************************************************)
(* Program constants.                                                      *)
(***************************************************************************)
HistoryLimit == 5
DefaultLimit == 10

(***************************************************************************)
(* Bounds of the model.                                                    *)
(***************************************************************************)
MaxCalls == 1
MaxDirect == 5
MaxClock == 8
PreLen == 5
MaxUpdates == 1

ChatIds == {1, 2}
Slots == {1, 2}
Texts == {"a", "b"}
DirectTexts == {"h"}
Usernames == {"alice"}
Completions == {"r"}
Limits == {-1, 0, 1, 2, 3, HistoryLimit, DefaultLimit}
\* what the provider may give as the content of a completion
ProviderTexts == Completions \cup {""}

TimeoutText ==
    "Désolé, l'API Mistral met trop de temps à répondre. Veuillez réessayer dans quelques instants."
ConnectionText ==
    "Désolé, je ne peux pas me connecter à l'API Mistral en ce moment. Veuillez réessayer plus tard."
AuthText ==
    "Désolé, il y a un problème d'authentification avec l'API Mistral. Veuillez contacter l'administrateur."
CommunicationText ==
    "Désolé, j'ai rencontré une erreur lors de la communication avec l'API Mistral."
RequestErrorText ==
    "Désolé, j'ai rencontré une erreur lors du traitement de votre demande."
GenerationFallback ==
    "Désolé, une erreur est survenue lors de la génération de la réponse. Veuillez réessayer plus tard."
UnexpectedFallback ==
    "Désolé, une erreur inattendue est survenue. Veuillez réessayer plus tard."

(***************************************************************************)
(* Python helpers.                                                         *)
(***************************************************************************)
\* dict.get(key, default)
DictGet(d, key, default) == IF key \in DOMAIN d THEN d[key] ELSE default

\* lst[-k:] for k > 0
SliceLast(lst, k) ==
    IF Len(lst) > k THEN SubSeq(lst, Len(lst) - k + 1, Len(lst)) ELSE lst

\* lst[:-1]
SliceButLast(lst) ==
    IF Len(lst) = 0 THEN <<>> ELSE SubSeq(lst, 1, Len(lst) - 1)

\* lst[::-1]
RECURSIVE Reversed(_)
Reversed(lst) ==
    IF lst = <<>> THEN <<>> ELSE Reversed(Tail(lst)) \o <<Head(lst)>>

\* lst[:k] for k >= 0
SliceFirst(lst, k) == IF Len(lst) > k THEN SubSeq(lst, 1, k) ELSE lst

\* outcomes of a call: a returned value or a raised exception
Return(v) == [kind |-> "return", value |-> v]
Raise(e) == [kind |-> "raise", exc |-> e]

(***************************************************************************)
(* MemoryAdapter.                                                          *)
(***************************************************************************)
MemEnsure(convs, chat_id) ==
    IF chat_id \in DOMAIN convs THEN convs
    ELSE [c \in DOMAIN convs \cup {chat_id} |->
            IF c = chat_id THEN <<>> ELSE convs[c]]

MemAppend(convs, chat_id, msg) ==
    LET c1 == MemEnsure(convs, chat_id)
    IN  [c1 EXCEPT ![chat_id] = Append(@, msg)]

MemSaveMessage(convs, chat_id, username, message) ==
    MemAppend(convs, chat_id, [from |-> "user", content |-> message])

MemSaveResponse(convs, chat_id, response) ==
    MemAppend(convs, chat_id, [from |-> "assistant", content |-> response])

MemGetConversation(convs, chat_id, limit) ==
    LET messages == DictGet(convs, chat_id, <<>>)
    IN  Return(IF limit > 0 THEN SliceLast(messages, limit) ELSE messages)

MemResetConversation(convs, chat_id) ==
    IF chat_id \in DOMAIN convs THEN [convs EXCEPT ![chat_id] = <<>>]
    ELSE convs

(***************************************************************************)
(* The partitioned store behind DynamoAdapter (boto3 Table).               *)
(***************************************************************************)
\* as PKOf, had every chat been written to one partition
PKOfShared(chat_id) == <<"CHAT#", 0>>

\* f"CHAT#{chat_id}"
PKOf(chat_id) == <<"CHAT#", chat_id>>
SKOf(timestamp) == <<"MSG#", timestamp>>

\* Table.put_item: an item with the same (PK, SK) is replaced
PutItem(t, item) ==
    {x \in t : ~(x.PK = item.PK /\ x.SK = item.SK)} \cup {item}

\* Table.delete_item
DeleteItem(t, key) == {x \in t : ~(x.PK = key.PK /\ x.SK = key.SK)}

\* items of a set in descending sort-key order (ScanIndexForward=False)
\* (the items of one partition differ in their sort keys: the item in
\* place i is the one with i - 1 items above it)
SortDescending(S) ==
    [i \in 1..Cardinality(S) |->
        CHOOSE x \in S :
            Cardinality({y \in S : y.SK[2] > x.SK[2]}) = i - 1]

\* Table.query(PK = :pk AND begins_with(SK, :sk_prefix), Limit,
\*             ScanIndexForward=False); the client rejects Limit < 1
\* with ParamValidationError (a BotoCoreError, not a ClientError)
\* before any request is sent.
QueryRecent(t, pk, sk_prefix, limit, outcome) ==
    IF limit < 1 THEN Raise("ParamValidationError")
    ELSE IF outcome # "ok" THEN Raise(outcome)
    ELSE Return(SliceFirst(
            SortDescending({x \in t : x.PK = pk /\ x.SK[1] = sk_prefix}),
            limit))

\* Table.query(PK = :pk), as issued by reset_conversation
QueryPartition(t, pk) == {x \in t : x.PK = pk}

(***************************************************************************)
(* DynamoAdapter.                                                          *)
(***************************************************************************)
UserItem(chat_id, username, message, timestamp) ==
    [PK |-> PKOf(chat_id), SK |-> SKOf(timestamp), Type |-> "Message",
     From |-> "user", Username |-> username, Content |-> message,
     Timestamp |-> timestamp]

ResponseItem(chat_id, response, timestamp) ==
    [PK |-> PKOf(chat_id), SK |-> SKOf(timestamp), Type |-> "Message",
     From |-> "assistant", Content |-> response, Timestamp |-> timestamp]

\* conversion of one queried item to the adapter's message format
ItemToMessage(item) ==
    [from |-> IF DictGet(item, "is_bot", FALSE) THEN "assistant" ELSE "user",
     content |-> DictGet(item, "content", "")]

RECURSIVE MapItems(_)
MapItems(items) ==
    IF items = <<>> THEN <<>>
    ELSE <<ItemToMessage(Head(items))>> \o MapItems(Tail(items))

\* get_conversation: a ClientError gives [], any other exception propagates
DynGetConversation(t, chat_id, limit, outcome) ==
    LET response == QueryRecent(t, PKOf(chat_id), "MSG#", limit, outcome)
    IN  IF response.kind = "return"
        THEN Return(Reversed(MapItems(response.value)))
        ELSE IF response.exc = "ClientError" THEN Return(<<>>)
        ELSE response

\* save_message / save_response: put_item unless the store call fails;
\* a ClientError is printed and re-raised, anything else propagates
DynSaveMessage(t, chat_id, username, message, timestamp, outcome) ==
    IF outcome = "ok"
    THEN PutItem(t, UserItem(chat_id, username, message, timestamp))
    ELSE t

DynSaveResponse(t, chat_id, response, timestamp, outcome) ==
    IF outcome = "ok"
    THEN PutItem(t, ResponseItem(chat_id, response, timestamp))
    ELSE t

SaveResult(outcome) == IF outcome = "ok" THEN Return("None") ELSE Raise(outcome)

\* keys that reset_conversation hands to the batch writer
ResetKeys(t, chat_id) ==
    {[PK |-> x.PK, SK |-> x.SK] : x \in QueryPartition(t, PKOf(chat_id))}

(***************************************************************************)
(* MistralClient.get_completion.                                           *)
(***************************************************************************)
\* what the single requests.post / raise_for_status / json() sequence does
ProviderOutcomes ==
    {"completion", "bad_body", "ConnectTimeout", "ReadTimeout",
     "ConnectionError", "HTTP401", "HTTP500", "TooManyRedirects"}

\* requests.exceptions class hierarchy (isinstance)
IsInstance(exc, class) ==
    CASE class = "Timeout" -> exc \in {"ConnectTimeout", "ReadTimeout"}
      [] class = "ConnectionError" ->
             exc \in {"ConnectionError", "ConnectTimeout"}
      [] class = "HTTPError" -> exc \in {"HTTP401", "HTTP500"}
      [] class = "RequestException" ->
             exc \in {"ConnectTimeout", "ReadTimeout", "ConnectionError",
                      "HTTP401", "HTTP500", "TooManyRedirects"}
      [] OTHER -> FALSE

StatusCode(exc) == IF exc = "HTTP401" THEN 401 ELSE 500

\* bool(requests.Response) is Response.ok: False for a 4xx/5xx status
ResponseTruthy(status_code) == status_code < 400

\* the payload: the history followed by the prompt as a user turn
RequestMessages(prompt, conversation_history) ==
    Append(conversation_history, [role |-> "user", content |-> prompt])

\* provider outcomes drawn in the relay
RelayOutcomes == ProviderOutcomes

\* as RequestsPosted, had a failed request been sent a second time
RequestsPostedRetry(outcome) == IF outcome = "completion" THEN 1 ELSE 2

\* requests.post calls made by one get_completion invocation: the single
\* call of line 51, whatever it returns or raises
RequestsPosted(outcome) == 1

\* as GetCompletion, had a failure been answered with the text of its
\* exception
GetCompletionDetail(outcome, text) ==
    IF outcome = "completion" THEN Return(text) ELSE Return(outcome)

\* lines 50-97: the content of the first completion, or the fixed text of
\* the handler that catches the failure
GetCompletion(outcome, text) ==
    IF outcome = "completion" THEN Return(text)
    ELSE IF IsInstance(outcome, "Timeout") THEN Return(TimeoutText)
    ELSE IF IsInstance(outcome, "ConnectionError") THEN Return(ConnectionText)
    ELSE IF IsInstance(outcome, "HTTPError") THEN
        IF ResponseTruthy(StatusCode(outcome)) /\ StatusCode(outcome) = 401
        THEN Return(AuthText)
        ELSE Return(CommunicationText)
    ELSE IF IsInstance(outcome, "RequestException")
        THEN Return(RequestErrorText)
    ELSE Raise("KeyError")

(***************************************************************************)
(* The adapter selected at start-up (app.get_database_adapter).            *)
(***************************************************************************)
\* a call to the remote store may fail; the in-process dict cannot
StoreOutcomes ==
    IF backend = "dynamo" THEN {"ok", "ClientError", "BotoCoreError"}
    ELSE {"ok"}

GetConversation(chat_id, limit, outcome) ==
    IF backend = "memory"
    THEN MemGetConversation(conversations, chat_id, limit)
    ELSE DynGetConversation(table, chat_id, limit, outcome)

\* the messages a chat holds in the store, oldest first, as written
StoredIn(convs, t, chat_id) ==
    IF backend = "memory" THEN DictGet(convs, chat_id, <<>>)
    ELSE LET items == Reversed(SortDescending(
                          QueryPartition(t, PKOf(chat_id))))
         IN  [i \in 1..Len(items) |->
                 [from |-> items[i].From, content |-> items[i].Content]]

StoredHistory(chat_id) == StoredIn(conversations, table, chat_id)

Logged(chat_id, role, content, outcome) ==
    /\ saved' = IF outcome = "ok"
                THEN [saved EXCEPT ![chat_id] =
                        Append(@, [from |-> role, content |-> content])]
                ELSE saved
    /\ resetRun' = IF outcome = "ok" /\ resetRun[chat_id] > 0
                   THEN [resetRun EXCEPT ![chat_id] = 0]
                   ELSE resetRun

\* time.time() at a Dynamo save: the millisecond of the previous save or
\* a later one (only order and equality of timestamps are observable, so
\* a later one is the next one); MemoryAdapter reads no clock
ClockRead(elapsed) ==
    /\ elapsed \in (IF backend = "dynamo" THEN {0, 1} ELSE {0})
    /\ now + elapsed <= MaxClock
    /\ now' = now + elapsed

\* db_adapter.save_message(chat_id, username, message)
AdapterSaveMessage(chat_id, username, message, elapsed, outcome) ==
    /\ outcome \in StoreOutcomes
    /\ ClockRead(elapsed)
    /\ IF backend = "memory"
       THEN /\ conversations' =
                   MemSaveMessage(conversations, chat_id, username, message)
            /\ table' = table
       ELSE /\ table' = DynSaveMessage(table, chat_id, username, message,
                                       now', outcome)
            /\ conversations' = conversations
    /\ Logged(chat_id, "user", message, outcome)

\* db_adapter.save_response(chat_id, response)
AdapterSaveResponse(chat_id, response, elapsed, outcome) ==
    /\ outcome \in StoreOutcomes
    /\ ClockRead(elapsed)
    /\ IF backend = "memory"
       THEN /\ conversations' =
                   MemSaveResponse(conversations, chat_id, response)
            /\ table' = table
       ELSE /\ table' = DynSaveResponse(table, chat_id, response, now',
                                        outcome)
            /\ conversations' = conversations
    /\ Logged(chat_id, "assistant", response, outcome)

(***************************************************************************)
(* TelegramService.process_message, one step per adapter/provider call.    *)
(***************************************************************************)
NoResult == [kind |-> "none"]

IdleCall ==
    [pc |-> "idle", chat_id |-> 0, username |-> "", message |-> "",
     save_raised |-> FALSE, conversation |-> <<>>, read_failed |-> FALSE,
     request |-> <<>>, provider |-> "none", completion |-> NoResult,
     completions |-> 0, posts |-> 0, response |-> "",
     reply_raised |-> FALSE, result |-> NoResult,
     alone |-> TRUE, before |-> <<>>, atRead |-> <<>>, after |-> <<>>]

NoReset ==
    [pc |-> "idle", chat_id |-> 0, pending |-> {}, result |-> NoResult,
     before |-> <<>>]

\* the outcome of a reset that has returned is gone with its caller
ResetSeen(r) == IF r.pc = "idle" THEN NoReset ELSE r

InProgress(s) == calls[s].pc \in {"saved", "read", "completed"}

\* No await of process_message or of the adapters suspends (boto3 and
\* requests.post are synchronous), so within one process a call runs to
\* its end before another handler starts; only processes sharing the
\* remote store interleave.
Exclusive ==
    processes = 1 => /\ \A s \in Slots : ~InProgress(s)
                     /\ reset.pc = "idle"

\* a call that has returned leaves no frame behind
Returned(cs) ==
    [t \in Slots |-> IF cs[t].pc = "done" THEN IdleCall ELSE cs[t]]

\* calls in progress other than s have seen another operation on the store
Disturb(cs, s) ==
    [t \in Slots |->
        IF t # s /\ cs[t].pc \in {"saved", "read", "completed"}
        THEN [cs[t] EXCEPT !.alone = FALSE]
        ELSE IF t # s THEN Returned(cs)[t] ELSE cs[t]]

\* lines 302-308: a failed read continues with an empty conversation
RelayConversation(r) == IF r.kind = "return" THEN r.value ELSE <<>>

\* lines 314-317
ConversationHistory(conversation) ==
    [i \in 1..Len(conversation) |->
        [role |-> IF DictGet(conversation[i], "from", "None") = "user"
                  THEN "user" ELSE "assistant",
         content |-> DictGet(conversation[i], "content", "")]]

\* line 319
Prompt(conversation) ==
    IF conversation # <<>>
    THEN DictGet(conversation[Len(conversation)], "content", "")
    ELSE ""

\* as ReplyAfterSave, had the save of the reply no handler of its own
ReplyLostOnSaveError(response, save_result) ==
    IF save_result.kind = "raise" THEN Return(GenerationFallback)
    ELSE Return(response)

\* lines 323-331: the reply is returned whatever the save of it did
ReplyAfterSave(response, save_result) == Return(response)

\* as ReplySaved, had the reply been saved without its text
ReplySavedBlank(response) == ""

\* line 325: the content saved for the reply is the text to be returned
ReplySaved(response) == response

\* as ProviderErrorReply, had the handlers re-raised as the adapters do
ProviderErrorReraise(exc) == Raise(exc)

\* lines 333-341: an exception of the provider call becomes a fallback
ProviderErrorReply(exc) == Return(GenerationFallback)

\* no update is being handled; seq counts the updates received so far
IdleUpdate ==
    [pc |-> "idle", seq |-> 0, transport |-> "none", keys |-> {},
     class |-> "none", branch |-> "none", chat_id |-> 0, username |-> "",
     text |-> "", started_at |-> 0, result |-> NoResult]

\* TelegramService.__init__: self.chat_mode = {}
NoChatMode == [c \in {} |-> FALSE]

NoTwin == [chat_mode |-> NoChatMode, outbox |-> <<>>, update |-> IdleUpdate]

\* no application around the service: its methods are called directly
\* the startup setup_webhook before it is called.  registered is the
\* webhook URL held by the platform ("" for none, "new" for the URL built
\* from API_URL); attempt counts the passes of the loop, sets the
\* setWebhook requests sent; cleared, set200 and verified tell what the
\* current pass has seen; deleted_with is the URL the platform held when
\* delete_webhook last returned True.
NoHook ==
    [pc |-> "idle", api_url |-> FALSE, registered |-> "",
     attempt |-> 0, sets |-> 0, cleared |-> "no", set200 |-> FALSE,
     verified |-> FALSE, deleted_with |-> "n/a", result |-> NoResult]

NoDeployment ==
    [pc |-> "none", is_lambda |-> FALSE, missing_vars |-> FALSE,
     polling |-> FALSE, webhook |-> "none", has_updater |-> TRUE,
     stop |-> [attempted |-> <<>>, result |-> NoResult],
     hook |-> NoHook]

Init ==
    /\ backend \in {"memory", "dynamo"}
    /\ chat_mode = NoChatMode
    /\ outbox = <<>>
    /\ update = IdleUpdate
    /\ twin = NoTwin
    /\ deployment = NoDeployment
    /\ conversations = [c \in {} |-> <<>>]
    /\ table = {}
    /\ now = 0
    /\ processes = 1
    /\ calls = [s \in Slots |-> IdleCall]
    /\ started = 0
    /\ directs = 0
    /\ reset = NoReset
    /\ saved = [c \in ChatIds |-> <<>>]
    /\ resetRun = [c \in ChatIds |-> 0]

\* step 1 (lines 293-299): save the inbound message, go on if that raised
PMStart(s, chat_id, username, message, elapsed, outcome) ==
    /\ ~InProgress(s)
    /\ \A t \in Slots : t < s => InProgress(t)
    /\ started < MaxCalls * processes
    /\ Exclusive
    /\ AdapterSaveMessage(chat_id, username, message, elapsed, outcome)
    /\ calls' = [Disturb(calls, s) EXCEPT ![s] =
            [IdleCall EXCEPT !.pc = "saved", !.chat_id = chat_id,
                !.username = username, !.message = message,
                !.save_raised = (SaveResult(outcome).kind = "raise"),
                !.alone = (reset.pc = "idle"
                           /\ \A t \in Slots \ {s} : ~InProgress(t)),
                !.before = StoredHistory(chat_id)]]
    /\ started' = started + 1
    /\ reset' = ResetSeen(reset)
    /\ UNCHANGED <<backend, processes, directs>>
    /\ UNCHANGED gatewayVars

\* as StepAfterRead, had a failed read left the call waiting for the store
StepAfterReadWaits(outcome) == IF outcome = "ok" THEN "read" ELSE "waiting"

\* lines 302-310: the call goes on to the provider whether get_conversation
\* returned or raised
StepAfterRead(outcome) == "read"

\* step 2 (lines 301-308): read the conversation, limit 5
PMRead(s, outcome) ==
    /\ calls[s].pc = "saved"
    /\ outcome \in StoreOutcomes
    /\ LET r == GetConversation(calls[s].chat_id, HistoryLimit, outcome)
       IN  calls' = [Disturb(calls, s) EXCEPT ![s] =
               [@ EXCEPT !.pc = StepAfterRead(outcome),
                   !.conversation = RelayConversation(r),
                   !.read_failed = (outcome # "ok"),
                   !.atRead = StoredHistory(calls[s].chat_id)]]
    /\ reset' = ResetSeen(reset)
    /\ UNCHANGED <<backend, conversations, table, now, processes, started,
                   directs, saved, resetRun>>
    /\ UNCHANGED gatewayVars

\* as StepAfterCompletion, had the reply been saved whatever the provider
\* call did
StepAfterCompletionAlways(r) == "completed"

\* lines 321-336: the save of the reply follows a provider call that
\* returned; one that raised goes to the handler of line 333, which returns
StepAfterCompletion(r) == IF r.kind = "return" THEN "completed" ELSE "done"

\* step 3 (lines 310-321, 333-336): build the turns, call the provider
PMComplete(s, provider, text) ==
    /\ calls[s].pc = "read"
    /\ LET conversation == calls[s].conversation
           conversation_history == ConversationHistory(conversation)
           prompt == Prompt(conversation)
           r == GetCompletion(provider, text)
       IN  calls' = [Disturb(calls, s) EXCEPT ![s] =
               IF r.kind = "return"
               THEN [@ EXCEPT !.pc = StepAfterCompletion(r),
                       !.request = RequestMessages(prompt,
                                       SliceButLast(conversation_history)),
                       !.provider = provider,
                       !.completion = r,
                       !.completions = @ + 1,
                       !.posts = @ + RequestsPosted(provider),
                       !.response = r.value]
               ELSE [@ EXCEPT !.pc = StepAfterCompletion(r),
                       !.request = RequestMessages(prompt,
                                       SliceButLast(conversation_history)),
                       !.provider = provider,
                       !.completion = r,
                       !.completions = @ + 1,
                       !.posts = @ + RequestsPosted(provider),
                       !.result = ProviderErrorReply(r.exc),
                       !.after = StoredHistory(calls[s].chat_id)]]
    /\ reset' = ResetSeen(reset)
    /\ UNCHANGED <<backend, conversations, table, now, processes, started,
                   directs, saved, resetRun>>
    /\ UNCHANGED gatewayVars

\* step 4 (lines 323-331): save the reply through save_message, return it
PMSaveReply(s, elapsed, outcome) ==
    /\ calls[s].pc = "completed"
    /\ AdapterSaveMessage(calls[s].chat_id, "assistant",
                          ReplySaved(calls[s].response), elapsed, outcome)
    /\ calls' = [Disturb(calls, s) EXCEPT ![s] =
            [@ EXCEPT !.pc = "done",
                !.reply_raised = (SaveResult(outcome).kind = "raise"),
                !.result = ReplyAfterSave(calls[s].response,
                                          SaveResult(outcome)),
                !.after = StoredIn(conversations', table',
                                   calls[s].chat_id)]]
    /\ reset' = ResetSeen(reset)
    /\ UNCHANGED <<backend, processes, started, directs>>
    /\ UNCHANGED gatewayVars

(***************************************************************************)
(* Direct calls of the adapter (webhook /reset, tests, other callers).     *)
(***************************************************************************)
SaveMessage(chat_id, username, message, elapsed, outcome) ==
    /\ directs < MaxDirect
    /\ Exclusive
    /\ AdapterSaveMessage(chat_id, username, message, elapsed, outcome)
    /\ calls' = Disturb(calls, 0)
    /\ directs' = directs + 1
    /\ reset' = ResetSeen(reset)
    /\ UNCHANGED <<backend, processes, started>>
    /\ UNCHANGED gatewayVars

SaveResponse(chat_id, response, elapsed, outcome) ==
    /\ directs < MaxDirect
    /\ Exclusive
    /\ AdapterSaveResponse(chat_id, response, elapsed, outcome)
    /\ calls' = Disturb(calls, 0)
    /\ directs' = directs + 1
    /\ reset' = ResetSeen(reset)
    /\ UNCHANGED <<backend, processes, started>>
    /\ UNCHANGED gatewayVars

\* reset_conversation: MemoryAdapter empties the list in one step;
\* DynamoAdapter queries the partition, then the batch writer deletes
ResetConversation(chat_id, outcome) ==
    /\ directs < MaxDirect
    /\ Exclusive
    /\ reset.pc = "idle"
    /\ outcome \in StoreOutcomes
    /\ IF backend = "memory"
       THEN /\ conversations' = MemResetConversation(conversations, chat_id)
            /\ reset' = [NoReset EXCEPT !.chat_id = chat_id,
                                        !.result = Return("None"),
                                        !.before = StoredHistory(chat_id)]
            /\ saved' = [saved EXCEPT ![chat_id] = <<>>]
            /\ resetRun' = [resetRun EXCEPT ![chat_id] =
                               IF @ >= 1 THEN 2 ELSE 1]
       ELSE /\ conversations' = conversations
            /\ IF outcome # "ok"
               THEN /\ reset' = [NoReset EXCEPT !.chat_id = chat_id,
                                               !.result = Raise(outcome),
                                               !.before =
                                                   StoredHistory(chat_id)]
                    /\ saved' = saved
                    /\ resetRun' = resetRun
               ELSE /\ reset' = [pc |-> "deleting", chat_id |-> chat_id,
                                 pending |-> ResetKeys(table, chat_id),
                                 result |-> NoResult,
                                 before |-> StoredHistory(chat_id)]
                    /\ saved' = [saved EXCEPT ![chat_id] = <<>>]
                    /\ resetRun' = resetRun
    /\ calls' = Disturb(calls, 0)
    /\ directs' = directs + 1
    /\ UNCHANGED <<backend, table, now, processes, started>>
    /\ UNCHANGED gatewayVars

\* the batch writer deletes one of the keys handed to it; BatchWriteItem
\* is not atomic as a whole, each delete becomes visible on its own
ResetDelete(key) ==
    /\ reset.pc = "deleting"
    /\ key \in reset.pending
    /\ table' = DeleteItem(table, key)
    /\ reset' = [reset EXCEPT !.pending = @ \ {key}]
    /\ calls' = Disturb(calls, 0)
    /\ UNCHANGED <<backend, conversations, now, processes, started, directs,
                   saved, resetRun>>
    /\ UNCHANGED gatewayVars

\* the batch writer has flushed every key: reset_conversation returns
ResetReturn ==
    /\ reset.pc = "deleting"
    /\ reset.pending = {}
    /\ reset' = [reset EXCEPT !.pc = "idle", !.result = Return("None")]
    /\ resetRun' = [resetRun EXCEPT ![reset.chat_id] =
                       IF @ >= 1 THEN 2 ELSE 1]
    /\ calls' = Returned(calls)
    /\ UNCHANGED <<backend, conversations, table, now, processes, started,
                   directs, saved>>
    /\ UNCHANGED gatewayVars

\* a batch request fails: the ClientError is printed and re-raised, the
\* keys not yet deleted stay in the table
ResetRaise ==
    /\ reset.pc = "deleting"
    /\ reset.pending # {}
    /\ reset' = [reset EXCEPT !.pc = "idle", !.result = Raise("ClientError")]
    /\ resetRun' = [resetRun EXCEPT ![reset.chat_id] = -1]
    /\ calls' = Returned(calls)
    /\ UNCHANGED <<backend, conversations, table, now, processes, started,
                   directs, saved>>
    /\ UNCHANGED gatewayVars

\* the storage adapter under direct calls
Next ==
    \/ \E c \in ChatIds, u \in Usernames, m \in DirectTexts,
          e \in {0, 1}, o \in {"ok", "ClientError", "BotoCoreError"} :
            SaveMessage(c, u, m, e, o)
    \/ \E c \in ChatIds, m \in Completions, e \in {0, 1},
          o \in {"ok", "ClientError", "BotoCoreError"} :
            SaveResponse(c, m, e, o)
    \/ \E c \in ChatIds, o \in {"ok", "ClientError", "BotoCoreError"} :
            ResetConversation(c, o)
    \/ \E k \in reset.pending : ResetDelete(k)
    \/ ResetReturn
    \/ ResetRaise

Spec == Init /\ [][Next]_vars

(***************************************************************************)
(* The relay on top of the adapter.  The store may already hold an earlier *)
(* exchange of chat 1: n messages, alternately a user message and a        *)
(* response, written by the adapter in n successive milliseconds.          *)
(***************************************************************************)
PreChat == CHOOSE c \in ChatIds : \A d \in ChatIds : c <= d
PreUser == "alice"

RECURSIVE PreConversations(_)
PreConversations(n) ==
    IF n = 0 THEN [c \in {} |-> <<>>]
    ELSE IF n % 2 = 1
    THEN MemSaveMessage(PreConversations(n - 1), PreChat, PreUser, "h")
    ELSE MemSaveResponse(PreConversations(n - 1), PreChat, "r")

RECURSIVE PreTable(_)
PreTable(n) ==
    IF n = 0 THEN {}
    ELSE IF n % 2 = 1
    THEN DynSaveMessage(PreTable(n - 1), PreChat, PreUser, "h", n, "ok")
    ELSE DynSaveResponse(PreTable(n - 1), PreChat, "r", n, "ok")

PreSaved(n) ==
    [i \in 1..n |-> IF i % 2 = 1 THEN [from |-> "user", content |-> "h"]
                    ELSE [from |-> "assistant", content |-> "r"]]

InitRelay ==
    /\ backend \in {"memory", "dynamo"}
    /\ \E n \in {0, PreLen} :
        /\ conversations = IF backend = "memory" THEN PreConversations(n)
                           ELSE [c \in {} |-> <<>>]
        /\ table = IF backend = "dynamo" THEN PreTable(n) ELSE {}
        /\ now = IF backend = "dynamo" THEN n ELSE 0
        /\ saved = [c \in ChatIds |->
                      IF c = PreChat THEN PreSaved(n) ELSE <<>>]
    /\ processes = 1
    /\ calls = [s \in Slots |-> IdleCall]
    /\ started = 0
    /\ directs = 0
    /\ reset = NoReset
    /\ resetRun = [c \in ChatIds |-> 0]
    /\ chat_mode = NoChatMode
    /\ outbox = <<>>
    /\ update = IdleUpdate
    /\ twin = NoTwin
    /\ deployment = NoDeployment

NextRelay ==
    \/ \E s \in Slots, c \in ChatIds, u \in Usernames, m \in Texts,
          e \in {0, 1}, o \in {"ok", "ClientError", "BotoCoreError"} :
            PMStart(s, c, u, m, e, o)
    \/ \E s \in Slots, o \in {"ok", "ClientError", "BotoCoreError"} :
            PMRead(s, o)
    \/ \E s \in Slots, p \in RelayOutcomes, t \in ProviderTexts :
            PMComplete(s, p, t)
    \/ \E s \in Slots, e \in {0, 1},
          o \in {"ok", "ClientError", "BotoCoreError"} :
            PMSaveReply(s, e, o)

SpecRelay == InitRelay /\ [][NextRelay]_vars

\* Every call the relay awaits comes back: the store call returns or
\* raises, requests.post returns, raises or runs into its timeout of
\* (3.05, 30) seconds.  So a call that is under way takes its next step.
RelayStep ==
    \E s \in Slots :
        \/ \E o \in {"ok", "ClientError", "BotoCoreError"} : PMRead(s, o)
        \/ \E p \in RelayOutcomes, t \in ProviderTexts : PMComplete(s, p, t)
        \/ \E e \in {0, 1}, o \in {"ok", "ClientError", "BotoCoreError"} :
              PMSaveReply(s, e, o)

SpecRelayLive == InitRelay /\ [][NextRelay]_vars /\ WF_vars(RelayStep)

(***************************************************************************)
(* Two processes (Lambda containers) on one table: each runs its           *)
(* process_message call to its end, but the store calls of the two calls   *)
(* interleave.  No store or provider call fails here.                      *)
(***************************************************************************)
InitShared ==
    /\ backend = "dynamo"
    /\ conversations = [c \in {} |-> <<>>]
    /\ table = {}
    /\ now = 0
    /\ saved = [c \in ChatIds |-> <<>>]
    /\ processes = 2
    /\ calls = [s \in Slots |-> IdleCall]
    /\ started = 0
    /\ directs = 0
    /\ reset = NoReset
    /\ resetRun = [c \in ChatIds |-> 0]
    /\ chat_mode = NoChatMode
    /\ outbox = <<>>
    /\ update = IdleUpdate
    /\ twin = NoTwin
    /\ deployment = NoDeployment

NextShared ==
    \/ \E s \in Slots, c \in ChatIds, u \in Usernames, m \in Texts,
          e \in {0, 1} :
            PMStart(s, c, u, m, e, "ok")
    \/ \E s \in Slots : PMRead(s, "ok")
    \/ \E s \in Slots, t \in Completions : PMComplete(s, "completion", t)
    \/ \E s \in Slots, e \in {0, 1} : PMSaveReply(s, e, "ok")

SpecShared == InitShared /\ [][NextShared]_vars

(***************************************************************************)
(* A later turn of a conversation: the store holds what an earlier         *)
(* process_message call for chat 1 has left, the message "h" saved at line *)
(* 295 and the reply "r" saved at line 325, both through save_message.     *)
(***************************************************************************)
TurnConversations ==
    MemSaveMessage(
        MemSaveMessage([c \in {} |-> <<>>], PreChat, PreUser, "h"),
        PreChat, "assistant", ReplySaved("r"))

TurnTable ==
    DynSaveMessage(
        DynSaveMessage({}, PreChat, PreUser, "h", 1, "ok"),
        PreChat, "assistant", ReplySaved("r"), 2, "ok")

\* both saves were save_message calls that returned
TurnSaved ==
    <<[from |-> "user", content |-> "h"],
      [from |-> "user", content |-> ReplySaved("r")]>>

InitTurns ==
    /\ backend \in {"memory", "dynamo"}
    /\ conversations = IF backend = "memory" THEN TurnConversations
                       ELSE [c \in {} |-> <<>>]
    /\ table = IF backend = "dynamo" THEN TurnTable ELSE {}
    /\ now = IF backend = "dynamo" THEN Len(TurnSaved) ELSE 0
    /\ saved = [c \in ChatIds |-> IF c = PreChat THEN TurnSaved ELSE <<>>]
    /\ processes = 1
    /\ calls = [s \in Slots |-> IdleCall]
    /\ started = 0
    /\ directs = 0
    /\ reset = NoReset
    /\ resetRun = [c \in ChatIds |-> 0]
    /\ chat_mode = NoChatMode
    /\ outbox = <<>>
    /\ update = IdleUpdate
    /\ twin = NoTwin
    /\ deployment = NoDeployment

SpecTurns == InitTurns /\ [][NextRelay]_vars

(***************************************************************************)
(* Dispatch of platform updates: ChatController.handle_webhook_update for  *)
(* the webhook, the handlers registered by _setup_handlers for polling.    *)
(***************************************************************************)
WelcomeText ==
    "Bonjour ! Je suis votre assistant IA alimenté par Mistral AI. Comment puis-je vous aider aujourd'hui?\n\nUtilisez /chat pour démarrer une conversation avec moi\nUtilisez /reset pour effacer notre historique de conversation\nUtilisez /help pour voir toutes les commandes disponibles"
ChatModeText ==
    "Mode chat activé ! Vous pouvez maintenant me parler directement. Que voulez-vous discuter ?"
ResetText ==
    "Votre historique de conversation a été réinitialisé."
HelpText ==
    "Commandes disponibles:\n\n/start - Démarrer la conversation et afficher le menu\n/chat - Commencer à discuter avec l'IA\n/reset - Réinitialiser votre historique de conversation\n/help - Afficher ce message d'aide"
\* the text ends with the emoji U+1F60A, written here by its code point
FeedbackPositiveText ==
    "Merci pour votre feedback positif ! U+1F60A"
FeedbackNegativeText ==
    "Je suis désolé que ma réponse n'ait pas été utile. Comment puis-je m'améliorer ?"

\* message texts of the updates drawn: the four commands, a command the
\* gateway does not know, a known command followed by an argument, and a
\* text that is no command
SlashTexts == {"/start", "/chat", "/reset", "/help", "/stop", "/reset now"}
UpdateTexts == SlashTexts \cup {"a"}
CallbackData == {"feedback_positive", "feedback_negative", "noop"}

\* text.startswith(prefix), for the texts above
StartsWith(text, prefix) == prefix = "/" /\ text \in SlashTexts

\* the command a text opens with (its bot_command entity without '/'),
\* for the texts above
CommandOf(text) ==
    CASE text = "/start" -> "start"
      [] text = "/chat" -> "chat"
      [] text \in {"/reset", "/reset now"} -> "reset"
      [] text = "/help" -> "help"
      [] text = "/stop" -> "stop"
      [] OTHER -> "None"

\* update objects as the platform delivers them
MessageUpdate(chat_id, username, text) ==
    [message |-> [chat |-> [id |-> chat_id],
                  from |-> [username |-> username],
                  text |-> text]]

\* a message without text (a photo)
PhotoUpdate(chat_id, username) ==
    [message |-> [chat |-> [id |-> chat_id],
                  from |-> [username |-> username],
                  photo |-> "file_id"]]

CallbackUpdate(chat_id, username, data) ==
    [callback_query |-> [message |-> [chat |-> [id |-> chat_id]],
                         from |-> [username |-> username],
                         data |-> data]]

\* an update that carries neither a message nor a callback query
PollUpdate == [poll |-> [id |-> "poll"]]

Updates ==
    {MessageUpdate(c, u, t) : c \in ChatIds, u \in Usernames,
                              t \in UpdateTexts}
    \cup {PhotoUpdate(c, u) : c \in ChatIds, u \in Usernames}
    \cup {CallbackUpdate(c, u, d) : c \in ChatIds, u \in Usernames,
                                    d \in CallbackData}
    \cup {PollUpdate}

\* d[key] = value on a dict
DictSet(d, key, value) ==
    [k \in DOMAIN d \cup {key} |-> IF k = key THEN value ELSE d[k]]

\* what a handler answers
StatusOk == Return([status |-> "ok"])

\* as WebhookCommand, had the command been matched by its name
WebhookCommandByName(text) ==
    IF CommandOf(text) \in {"start", "chat", "reset", "help"}
    THEN CommandOf(text) ELSE "none"

\* lines 90-115: a command is matched by comparing the whole text
WebhookCommand(text) ==
    IF text = "/start" THEN "start"
    ELSE IF text = "/chat" THEN "chat"
    ELSE IF text = "/reset" THEN "reset"
    ELSE IF text = "/help" THEN "help"
    ELSE "none"

\* as CallbackBranch, had the last tag test been a plain else
CallbackBranchElse(data) ==
    IF data = "feedback_positive" THEN "positive" ELSE "negative"

\* lines 131-134: a callback is answered by its data tag
CallbackBranch(data) ==
    IF data = "feedback_positive" THEN "positive"
    ELSE IF data = "feedback_negative" THEN "negative"
    ELSE "none"

\* handle_webhook_update, lines 82-136: the class of the update and the
\* branch taken for it
WebhookDispatch(u) ==
    IF "message" \in DOMAIN u
    THEN LET message == u.message
             chat_id == message.chat.id
             username == DictGet(message.from, "username", "inconnu")
             text == DictGet(message, "text", "")
         IN  IF StartsWith(text, "/")
             THEN [class |-> "command", chat_id |-> chat_id,
                   username |-> username, text |-> text,
                   branch |-> WebhookCommand(text)]
             ELSE [class |-> "free_text", chat_id |-> chat_id,
                   username |-> username, text |-> text,
                   branch |-> "relay"]
    ELSE IF "callback_query" \in DOMAIN u
    THEN LET callback_query == u.callback_query
             data == DictGet(callback_query, "data", "")
         IN  [class |-> "callback_interaction",
              chat_id |-> callback_query.message.chat.id,
              username |-> DictGet(callback_query.from, "username",
                                   "inconnu"),
              text |-> data,
              branch |-> CallbackBranch(data)]
    ELSE [class |-> "none", chat_id |-> 0, username |-> "", text |-> "",
          branch |-> "none"]

\* _setup_handlers, lines 46-55: the handler the polling application picks
\* (CommandHandler x 4, MessageHandler(TEXT & ~COMMAND),
\* CallbackQueryHandler)
PollingDispatch(u) ==
    IF "message" \in DOMAIN u
    THEN LET message == u.message
             chat_id == message.chat.id
             username == DictGet(message.from, "username", "user")
         IN  IF "text" \in DOMAIN message /\ CommandOf(message.text) # "None"
             THEN [class |-> "command", chat_id |-> chat_id,
                   username |-> username, text |-> message.text,
                   branch |-> IF CommandOf(message.text)
                                     \in {"start", "chat", "reset", "help"}
                              THEN CommandOf(message.text) ELSE "none"]
             ELSE IF "text" \in DOMAIN message
             THEN [class |-> "free_text", chat_id |-> chat_id,
                   username |-> username, text |-> message.text,
                   branch |-> "relay"]
             ELSE [class |-> "none", chat_id |-> chat_id,
                   username |-> username, text |-> "", branch |-> "none"]
    ELSE IF "callback_query" \in DOMAIN u
    THEN LET query == u.callback_query
         IN  [class |-> "callback_interaction",
              chat_id |-> query.message.chat.id,
              username |-> DictGet(query.from, "username", "user"),
              text |-> query.data,
              branch |-> IF query.data = "feedback_positive" THEN "positive"
                         ELSE IF query.data = "feedback_negative"
                         THEN "negative"
                         ELSE "answer"]
    ELSE [class |-> "none", chat_id |-> 0, username |-> "", text |-> "",
          branch |-> "none"]

Dispatch(transport, u) ==
    IF transport = "webhook" THEN WebhookDispatch(u) ELSE PollingDispatch(u)

\* one call to the platform
PlatformCall(via, chat_id, text) ==
    [via |-> via, chat_id |-> chat_id, text |-> text]

BranchText(branch) ==
    CASE branch = "start" -> WelcomeText
      [] branch = "chat" -> ChatModeText
      [] branch = "reset" -> ResetText
      [] branch = "help" -> HelpText
      [] branch = "positive" -> FeedbackPositiveText
      [] branch = "negative" -> FeedbackNegativeText
      [] OTHER -> ""

\* the platform calls a branch makes before any adapter or relay call
FirstCalls(transport, d) ==
    IF transport = "webhook"
    THEN IF d.branch \in {"start", "chat", "help", "positive", "negative"}
         THEN <<PlatformCall("send_message", d.chat_id, BranchText(d.branch))>>
         ELSE <<>>
    ELSE IF d.branch \in {"start", "chat", "help"}
         THEN <<PlatformCall("reply_text", d.chat_id, BranchText(d.branch))>>
         ELSE IF d.branch = "relay"
         THEN <<PlatformCall("send_action", d.chat_id, "typing")>>
         ELSE IF d.branch \in {"positive", "negative"}
         THEN <<PlatformCall("answer", d.chat_id, ""),
                PlatformCall("edit_message_reply_markup", d.chat_id, ""),
                PlatformCall("reply_text", d.chat_id, BranchText(d.branch))>>
         ELSE IF d.branch = "answer"
         THEN <<PlatformCall("answer", d.chat_id, "")>>
         ELSE <<>>

\* the call that delivers a text to the chat: send_message (lines 252-276,
\* which logs every failure and returns) or Message.reply_text (which
\* raises on failure)
SendCall(transport, chat_id, text) ==
    PlatformCall(IF transport = "webhook" THEN "send_message"
                 ELSE "reply_text", chat_id, text)

\* a handler makes the calls in order while they succeed: ok of them do;
\* on polling the first that fails raises and ends the handler, on the
\* webhook send_message swallows the failure
Attempted(transport, platform_calls, ok) ==
    IF transport = "polling" /\ ok < Len(platform_calls)
    THEN SubSeq(platform_calls, 1, ok + 1)
    ELSE platform_calls

HandlerRaised(transport, platform_calls, ok) ==
    transport = "polling" /\ ok < Len(platform_calls)

\* what the handler of an update ends with
HandlerResult(transport, raised) ==
    IF raised
    THEN IF transport = "webhook" THEN Raise("HTTPException500")
         ELSE Raise("error_handler")
    ELSE IF transport = "webhook" THEN StatusOk ELSE Return("None")

\* routes/chat_route.py, handle_update (lines 88-97): the answer of
\* POST /update to a decoded body, from what handle_webhook_update ended
\* with; except Exception turns every raise, the controller's
\* HTTPException(500) included, into HTTPException(400)
RouteHandleUpdate(result) ==
    IF result.kind = "raise" THEN Raise("HTTPException400") ELSE result

\* as Routed, had free text been relayed only to a chat in chat mode
RoutedInChatMode(mode, transport, u) ==
    LET d == Dispatch(transport, u)
    IN  IF d.branch = "relay" /\ DictGet(mode, d.chat_id, FALSE) # TRUE
        THEN [d EXCEPT !.branch = "none"]
        ELSE d

\* the branch taken for an update by a gateway whose flags are mode:
\* neither handle_webhook_update nor the polling handlers test a flag
\* before they choose what to do
Routed(mode, transport, u) == Dispatch(transport, u)

\* the flags after the handler of d: set by /chat (chat_controller.py 101,
\* telegram_service.py 129) and by the polling handler of free text if not
\* set yet (telegram_service.py 178-179)
ChatModeAfter(mode, transport, d) ==
    IF d.branch = "chat"
    THEN DictSet(mode, d.chat_id, TRUE)
    ELSE IF d.branch = "relay" /\ transport = "polling"
    THEN IF DictGet(mode, d.chat_id, FALSE) # TRUE
         THEN DictSet(mode, d.chat_id, TRUE)
         ELSE mode
    ELSE mode

\* what the handler of update u has done, in a gateway whose flags are
\* mode, when it reaches its first adapter or relay call, or its end if it
\* makes none
HandlerEntry(mode, seq, relay_calls, transport, u, ok) ==
    LET d == Routed(mode, transport, u)
        platform_calls == FirstCalls(transport, d)
        raised == HandlerRaised(transport, platform_calls, ok)
    IN  [chat_mode |-> ChatModeAfter(mode, transport, d),
         outbox |-> Attempted(transport, platform_calls, ok),
         update |->
             [pc |-> IF raised THEN "returned"
                     ELSE IF d.branch = "relay" THEN "free_text"
                     ELSE IF d.branch = "reset" THEN "reset"
                     ELSE "returned",
              seq |-> seq + 1,
              transport |-> transport,
              keys |-> DOMAIN u,
              class |-> d.class,
              branch |-> d.branch,
              chat_id |-> d.chat_id,
              username |-> d.username,
              text |-> d.text,
              started_at |-> relay_calls,
              result |-> IF raised \/ d.branch \notin {"relay", "reset"}
                         THEN HandlerResult(transport, raised)
                         ELSE NoResult]]

\* An update arrives and its handler runs up to its first adapter or relay
\* call, or to its end if it makes none.  The second gateway is given the
\* same update and the same platform outcomes.
HandleUpdate(transport, u, ok) ==
    /\ update.pc \in {"idle", "returned"}
    /\ update.seq < MaxUpdates
    /\ Exclusive
    /\ LET entry == HandlerEntry(chat_mode, update.seq, started, transport,
                                 u, ok)
       IN  /\ entry.update.branch = "relay" => started < MaxCalls
           /\ entry.update.branch = "reset" => directs < MaxDirect
           /\ chat_mode' = entry.chat_mode
           /\ outbox' = entry.outbox
           /\ update' = entry.update
    /\ twin' = HandlerEntry(twin.chat_mode, update.seq, started, transport,
                            u, ok)
    /\ calls' = Returned(calls)
    /\ reset' = NoReset
    /\ UNCHANGED <<backend, conversations, table, now, processes, started,
                   directs, saved, resetRun, deployment>>

\* free text: the handler calls process_message with the update's fields
DispatchProcessMessage(s, elapsed, outcome) ==
    /\ update.pc = "free_text"
    /\ calls[s].pc = "idle"
    /\ PMStart(s, update.chat_id, update.username, update.text, elapsed,
               outcome)

\* as DispatchSendReply, had the handler answered without sending
DispatchSkipReply(s, ok) ==
    /\ update.pc = "free_text"
    /\ calls[s].pc = "done"
    /\ update' = [update EXCEPT !.pc = "returned",
           !.result = HandlerResult(update.transport, FALSE)]
    /\ UNCHANGED <<backend, conversations, table, now, processes, calls,
                   started, directs, reset, saved, resetRun, chat_mode,
                   outbox, twin, deployment>>

\* free text: process_message has returned, its result is sent to the chat
DispatchSendReply(s, ok) ==
    /\ update.pc = "free_text"
    /\ calls[s].pc = "done"
    /\ LET platform_calls ==
               <<SendCall(update.transport, update.chat_id,
                          calls[s].result.value)>>
       IN  /\ outbox' = outbox \o
                  Attempted(update.transport, platform_calls, ok)
           /\ update' = [update EXCEPT !.pc = "returned",
                  !.result = HandlerResult(update.transport,
                      HandlerRaised(update.transport, platform_calls, ok))]
    /\ UNCHANGED <<backend, conversations, table, now, processes, calls,
                   started, directs, reset, saved, resetRun, chat_mode,
                   twin, deployment>>

\* /reset: the handler calls reset_conversation of the adapter
DispatchReset(outcome) ==
    /\ update.pc = "reset"
    /\ reset.pc = "idle" /\ reset.result.kind = "none"
    /\ ResetConversation(update.chat_id, outcome)

\* as DispatchResetDone, had the handler caught the error of the reset
DispatchResetQuiet(ok) ==
    /\ update.pc = "reset"
    /\ reset.pc = "idle" /\ reset.result.kind # "none"
    /\ LET platform_calls ==
               <<SendCall(update.transport, update.chat_id, ResetText)>>
       IN  /\ outbox' = outbox \o
                  Attempted(update.transport, platform_calls, ok)
           /\ update' = [update EXCEPT !.pc = "returned",
                  !.result = HandlerResult(update.transport,
                      HandlerRaised(update.transport, platform_calls, ok))]
    /\ UNCHANGED <<backend, conversations, table, now, processes, calls,
                   started, directs, reset, saved, resetRun, chat_mode,
                   twin, deployment>>

\* /reset: reset_conversation has returned or raised; the confirmation is
\* sent in the first case only (chat_controller.py 106-107 and 138-144,
\* telegram_service.py 143-145)
DispatchResetDone(ok) ==
    /\ update.pc = "reset"
    /\ reset.pc = "idle" /\ reset.result.kind # "none"
    /\ LET platform_calls ==
               IF reset.result.kind = "return"
               THEN <<SendCall(update.transport, update.chat_id, ResetText)>>
               ELSE <<>>
       IN  /\ outbox' = outbox \o
                  Attempted(update.transport, platform_calls, ok)
           /\ update' = [update EXCEPT !.pc = "returned",
                  !.result = HandlerResult(update.transport,
                      reset.result.kind = "raise"
                      \/ HandlerRaised(update.transport, platform_calls,
                                       ok))]
    /\ UNCHANGED <<backend, conversations, table, now, processes, calls,
                   started, directs, reset, saved, resetRun, chat_mode,
                   twin, deployment>>

\* The gateway starts on a store in which chat 1 holds one earlier exchange
\* (a message and a response) and chat 2 nothing.
InitDispatch ==
    /\ backend \in {"memory", "dynamo"}
    /\ \E n \in {Len(PreSaved(2))} :
        /\ conversations = IF backend = "memory" THEN PreConversations(n)
                           ELSE [c \in {} |-> <<>>]
        /\ table = IF backend = "dynamo" THEN PreTable(n) ELSE {}
        /\ now = IF backend = "dynamo" THEN n ELSE 0
        /\ saved = [c \in ChatIds |->
                      IF c = PreChat THEN PreSaved(n) ELSE <<>>]
    /\ processes = 1
    /\ calls = [s \in Slots |-> IdleCall]
    /\ started = 0
    /\ directs = 0
    /\ reset = NoReset
    /\ resetRun = [c \in ChatIds |-> 0]
    /\ chat_mode = NoChatMode
    /\ outbox = <<>>
    /\ update = IdleUpdate
    /\ twin = NoTwin
    /\ deployment = NoDeployment

\* the flag maps a gateway can hold: chats are only ever added, with True
ModeMaps == UNION {[S -> {TRUE}] : S \in SUBSET ChatIds}

\* two gateways on equal stores, with different flags left by earlier
\* updates
InitTwin ==
    /\ backend \in {"memory", "dynamo"}
    /\ \E n \in {Len(PreSaved(2))} :
        /\ conversations = IF backend = "memory" THEN PreConversations(n)
                           ELSE [c \in {} |-> <<>>]
        /\ table = IF backend = "dynamo" THEN PreTable(n) ELSE {}
        /\ now = IF backend = "dynamo" THEN n ELSE 0
        /\ saved = [c \in ChatIds |->
                      IF c = PreChat THEN PreSaved(n) ELSE <<>>]
    /\ processes = 1
    /\ calls = [s \in Slots |-> IdleCall]
    /\ started = 0
    /\ directs = 0
    /\ reset = NoReset
    /\ resetRun = [c \in ChatIds |-> 0]
    /\ chat_mode \in ModeMaps
    /\ outbox = <<>>
    /\ update = IdleUpdate
    /\ twin \in [chat_mode : ModeMaps \ {chat_mode}, outbox : {<<>>},
                  update : {IdleUpdate}]
    /\ deployment = NoDeployment

\* provider outcomes drawn under dispatch: a completion, a classified
\* failure, an answer without a usable completion
DispatchOutcomes == {"completion", "ReadTimeout", "bad_body"}

\* the steps of a handler after its entry
NextHandler ==
    \/ \E s \in Slots, e \in {0, 1},
          o \in {"ok", "ClientError", "BotoCoreError"} :
            DispatchProcessMessage(s, e, o)
    \/ \E s \in Slots, o \in {"ok", "ClientError", "BotoCoreError"} :
            PMRead(s, o)
    \/ \E s \in Slots, p \in DispatchOutcomes, t \in Completions :
            PMComplete(s, p, t)
    \/ \E s \in Slots, e \in {0, 1},
          o \in {"ok", "ClientError", "BotoCoreError"} :
            PMSaveReply(s, e, o)
    \/ \E s \in Slots, ok \in 0..1 : DispatchSendReply(s, ok)
    \/ \E o \in {"ok", "ClientError", "BotoCoreError"} : DispatchReset(o)
    \/ \E k \in reset.pending : ResetDelete(k)
    \/ ResetReturn
    \/ ResetRaise
    \/ \E ok \in 0..1 : DispatchResetDone(ok)

NextDispatch ==
    \/ \E tr \in {"webhook", "polling"}, u \in Updates :
          \E ok \in 0..Len(FirstCalls(tr, Dispatch(tr, u))) :
            HandleUpdate(tr, u, ok)
    \/ NextHandler

(***************************************************************************)
(* The application: app.py, startup_event.  The store is the one chosen by *)
(* get_database_adapter for the environment; updates reach the service     *)
(* through the channels the startup has activated.                         *)
(***************************************************************************)
\* get_database_adapter, lines 25-44
GetDatabaseAdapter(use_memory_adapter, is_lambda) ==
    IF use_memory_adapter THEN "memory"
    ELSE IF is_lambda THEN "dynamo"
    ELSE "memory"

\* as StartupChannels, had the polling task been created in every
\* environment
StartupChannelsBoth(missing_vars, is_lambda, webhook_ok) ==
    IF missing_vars THEN [polling |-> FALSE, webhook |-> "none"]
    ELSE [polling |-> TRUE,
          webhook |-> IF ~is_lambda THEN "none"
                      ELSE IF webhook_ok THEN "registered" ELSE "failed"]

\* startup_event, lines 238-254: nothing if a required variable is
\* missing; in Lambda setup_webhook, which says whether it succeeded;
\* otherwise a task running start_polling
StartupChannels(missing_vars, is_lambda, webhook_ok) ==
    IF missing_vars THEN [polling |-> FALSE, webhook |-> "none"]
    ELSE IF is_lambda
    THEN [polling |-> FALSE,
          webhook |-> IF webhook_ok THEN "registered" ELSE "failed"]
    ELSE [polling |-> TRUE, webhook |-> "none"]

StartupEvent(webhook_ok) ==
    /\ deployment.pc = "created"
    /\ LET channels == StartupChannels(deployment.missing_vars,
                                       deployment.is_lambda, webhook_ok)
       IN  deployment' = [deployment EXCEPT !.pc = "started",
                              !.polling = channels.polling,
                              !.webhook = channels.webhook]
    /\ UNCHANGED <<backend, conversations, table, now, processes, calls,
                   started, directs, reset, saved, resetRun, chat_mode,
                   outbox, update, twin>>

\* how a stop step awaited under asyncio.wait_for(..., timeout=2.0) ends
StopOutcomes == {"ok", "TimeoutError", "CancelledError", "Exception"}

StopSteps == <<"updater.stop", "app.stop", "app.shutdown">>

\* TelegramService.stop, lines 67-98.  "import asyncio" stands inside the
\* branch taken when the application has an updater, which makes asyncio a
\* local name of stop: without an updater the name is unbound at line 85,
\* both in the call and in the except clause, and the UnboundLocalError
\* goes to the handler of line 97, which logs it.  With an updater every
\* step is attempted and every way it ends is caught.
Stop(has_updater, outcomes) ==
    IF has_updater
    THEN [attempted |-> StopSteps, result |-> Return("None")]
    ELSE [attempted |-> <<>>, result |-> Return("None")]

\* shutdown_event, lines 262-265: outside Lambda the service is stopped
ShutdownEvent(outcomes) ==
    /\ deployment.pc = "started"
    /\ update.pc \in {"idle", "returned"}
    /\ Exclusive
    /\ deployment' =
           [deployment EXCEPT !.pc = "stopped",
               !.stop = IF deployment.is_lambda THEN @
                        ELSE Stop(deployment.has_updater, outcomes)]
    /\ UNCHANGED <<backend, conversations, table, now, processes, calls,
                   started, directs, reset, saved, resetRun, chat_mode,
                   outbox, update, twin>>

\* an update can come in by a channel that is active: the updater polls
\* once start_polling has run, the platform posts to a registered webhook
Inbound(transport) ==
    /\ deployment.pc = "started"
    /\ transport = "polling" => deployment.polling /\ deployment.has_updater
    /\ transport = "webhook" => deployment.webhook = "registered"

InitStartup ==
    /\ \E use_memory_adapter \in BOOLEAN, is_lambda \in BOOLEAN,
          missing_vars \in BOOLEAN, has_updater \in BOOLEAN :
        /\ backend = GetDatabaseAdapter(use_memory_adapter, is_lambda)
        /\ deployment = [NoDeployment EXCEPT !.pc = "created",
                             !.is_lambda = is_lambda,
                             !.missing_vars = missing_vars,
                             !.has_updater = has_updater]
    /\ \E n \in {Len(PreSaved(2))} :
        /\ conversations = IF backend = "memory" THEN PreConversations(n)
                           ELSE [c \in {} |-> <<>>]
        /\ table = IF backend = "dynamo" THEN PreTable(n) ELSE {}
        /\ now = IF backend = "dynamo" THEN n ELSE 0
        /\ saved = [c \in ChatIds |->
                      IF c = PreChat THEN PreSaved(n) ELSE <<>>]
    /\ processes = 1
    /\ calls = [s \in Slots |-> IdleCall]
    /\ started = 0
    /\ directs = 0
    /\ reset = NoReset
    /\ resetRun = [c \in ChatIds |-> 0]
    /\ chat_mode = NoChatMode
    /\ outbox = <<>>
    /\ update = IdleUpdate
    /\ twin = NoTwin

NextStartup ==
    \/ \E webhook_ok \in BOOLEAN : StartupEvent(webhook_ok)
    \/ \E outcomes \in [DOMAIN StopSteps -> StopOutcomes] :
          ShutdownEvent(outcomes)
    \/ \E tr \in {"webhook", "polling"}, u \in Updates :
          \E ok \in 0..Len(FirstCalls(tr, Dispatch(tr, u))) :
            Inbound(tr) /\ HandleUpdate(tr, u, ok)
    \/ NextHandler

SpecStartup == InitStartup /\ [][NextStartup]_vars

(***************************************************************************)
(* The startup setup_webhook of app.py, one action per request it sends.   *)
(***************************************************************************)
max_retries == 3

\* how a request to the platform ends: status 200, another status, or an
\* exception (a timeout, a connection error)
HttpOutcomes == {"200", "error", "exception"}

NoInfo == [info |-> FALSE, url |-> ""]

\* get_webhook_info, lines 94-112: the answer of the platform on status
\* 200, None on any other status and on any exception
GetWebhookInfo(registered, outcome) ==
    IF outcome = "200" THEN [info |-> TRUE, url |-> registered] ELSE NoInfo

\* "not webhook_info or not webhook_info.get('result', {}).get('url')"
NoUrl(webhook_info) == ~webhook_info.info \/ webhook_info.url = ""

\* as FailedAttempt, had the loop ended with success
FailedAttemptSucceeds(h) ==
    IF h.attempt < max_retries
    THEN [h EXCEPT !.pc = "check", !.attempt = @ + 1, !.cleared = "no",
                   !.set200 = FALSE, !.verified = FALSE]
    ELSE [h EXCEPT !.pc = "returned", !.result = Return("True")]

\* "continue", an exception caught at line 222 and the end of the body
\* all lead to the next pass of "for attempt in range(max_retries)";
\* after the last one, line 227 returns False
FailedAttempt(h) ==
    IF h.attempt < max_retries
    THEN [h EXCEPT !.pc = "check", !.attempt = @ + 1, !.cleared = "no",
                   !.set200 = FALSE, !.verified = FALSE]
    ELSE [h EXCEPT !.pc = "returned", !.result = Return("False")]

\* delete_webhook has returned True (how tells what it has seen): line 186
\* returns False if API_URL is not set, otherwise setWebhook is next
DeleteReturnedTrue(h, how) ==
    LET g == [h EXCEPT !.cleared = how, !.deleted_with = h.registered]
    IN  IF ~g.api_url
        THEN [g EXCEPT !.pc = "returned", !.result = Return("False")]
        ELSE [g EXCEPT !.pc = "set_post"]

HookStep(h) ==
    /\ deployment' = [deployment EXCEPT !.hook = h]
    /\ UNCHANGED <<backend, conversations, table, now, processes, calls,
                   started, directs, reset, saved, resetRun, chat_mode,
                   outbox, update, twin>>

\* startup_event, lines 245-247: in Lambda, with every variable set,
\* setup_webhook is called and its first pass begins
SetupWebhookStart ==
    /\ deployment.pc = "created"
    /\ deployment.is_lambda /\ ~deployment.missing_vars
    /\ deployment.hook.pc = "idle"
    /\ HookStep([deployment.hook EXCEPT !.pc = "check", !.attempt = 1])

\* lines 168-176: the pause between passes and a first get_webhook_info,
\* whose answer is only logged
SetupCheck(outcome) ==
    /\ deployment.hook.pc = "check"
    /\ HookStep([deployment.hook EXCEPT !.pc = "del_get"])

\* delete_webhook, lines 122-126: True if get_webhook_info gave nothing or
\* no URL, otherwise deleteWebhook is sent
DeleteGet(outcome) ==
    /\ deployment.hook.pc = "del_get"
    /\ LET h == deployment.hook
           webhook_info == GetWebhookInfo(h.registered, outcome)
       IN  HookStep(IF NoUrl(webhook_info)
                    THEN DeleteReturnedTrue(h,
                             IF webhook_info.info THEN "absent"
                             ELSE "unknown")
                    ELSE [h EXCEPT !.pc = "del_post"])

\* delete_webhook, lines 130-147: deleteWebhook; on status 200 the platform
\* has dropped the URL and a check follows, anything else returns False
\* (line 180: "continue")
DeletePost(outcome) ==
    /\ deployment.hook.pc = "del_post"
    /\ LET h == deployment.hook
       IN  HookStep(IF outcome = "200"
                    THEN [h EXCEPT !.pc = "del_verify", !.registered = ""]
                    ELSE FailedAttempt(h))

\* delete_webhook, lines 138-143: True if get_webhook_info gives nothing
\* or no URL after the deletion, False otherwise
DeleteVerify(outcome) ==
    /\ deployment.hook.pc = "del_verify"
    /\ LET h == deployment.hook
           webhook_info == GetWebhookInfo(h.registered, outcome)
       IN  HookStep(IF NoUrl(webhook_info)
                    THEN DeleteReturnedTrue(h, "deleted")
                    ELSE FailedAttempt(h))

\* lines 193-201 and 213-220: setWebhook; on status 200 the platform holds
\* the new URL and a check follows; any other status (429 after a pause)
\* and any exception end the pass
SetWebhookPost(outcome) ==
    /\ deployment.hook.pc = "set_post"
    /\ LET h == [deployment.hook EXCEPT !.sets = @ + 1]
       IN  HookStep(IF outcome = "200"
                    THEN [h EXCEPT !.pc = "set_verify", !.set200 = TRUE,
                                   !.registered = "new"]
                    ELSE FailedAttempt(h))

\* lines 203-211: True if get_webhook_info reports the URL just set
SetWebhookVerify(outcome) ==
    /\ deployment.hook.pc = "set_verify"
    /\ LET h == deployment.hook
           webhook_info == GetWebhookInfo(h.registered, outcome)
       IN  HookStep(IF webhook_info.info /\ webhook_info.url = "new"
                    THEN [h EXCEPT !.pc = "returned", !.verified = TRUE,
                                   !.result = Return("True")]
                    ELSE FailedAttempt(h))

\* a Lambda deployment about to start, with or without API_URL, the
\* platform holding no URL, another URL or already the one to set
InitWebhook ==
    /\ \E use_memory_adapter \in BOOLEAN :
          backend = GetDatabaseAdapter(use_memory_adapter, TRUE)
    /\ conversations = [c \in {} |-> <<>>]
    /\ table = {}
    /\ now = 0
    /\ saved = [c \in ChatIds |-> <<>>]
    /\ processes = 1
    /\ calls = [s \in Slots |-> IdleCall]
    /\ started = 0
    /\ directs = 0
    /\ reset = NoReset
    /\ resetRun = [c \in ChatIds |-> 0]
    /\ chat_mode = NoChatMode
    /\ outbox = <<>>
    /\ update = IdleUpdate
    /\ twin = NoTwin
    /\ \E api_url \in BOOLEAN, registered \in {"", "old", "new"} :
          deployment = [NoDeployment EXCEPT !.pc = "created",
                            !.is_lambda = TRUE,
                            !.hook = [NoHook EXCEPT !.api_url = api_url,
                                          !.registered = registered]]

NextWebhook ==
    \/ SetupWebhookStart
    \/ \E outcome \in HttpOutcomes :
          \/ SetupCheck(outcome)
          \/ DeleteGet(outcome)
          \/ DeletePost(outcome)
          \/ DeleteVerify(outcome)
          \/ SetWebhookPost(outcome)
          \/ SetWebhookVerify(outcome)
    \/ /\ deployment.hook.pc = "returned"
       /\ StartupEvent(deployment.hook.result.value = "True")

\* every request carries a timeout and every pause is finite, so a step
\* that can be taken is taken
SpecWebhook == InitWebhook /\ [][NextWebhook]_vars /\ WF_vars(NextWebhook)

SpecTwin == InitTwin /\ [][NextDispatch]_vars

SpecDispatch == InitDispatch /\ [][NextDispatch]_vars

(***************************************************************************)
(* Properties.                                                             *)
(***************************************************************************)
Last(seq) == seq[Len(seq)]

Finished(s) == calls[s].pc = "done"
ProviderCalled(s) == calls[s].pc \in {"completed", "done"}

\* no reset of the chat is under way or has stopped half-way
Clean(chat_id) ==
    /\ resetRun[chat_id] >= 0
    /\ ~(reset.pc = "deleting" /\ reset.chat_id = chat_id)

ReplyTexts ==
    ProviderTexts \cup {TimeoutText, ConnectionText, AuthText,
                      CommunicationText, RequestErrorText,
                      GenerationFallback, UnexpectedFallback}

\* C1: a process_message call that runs alone adds exactly two messages to
\* the chat's stored history: the user's text, then an assistant message
\* whose content is the returned reply.
C1_RoundTrip ==
    \A s \in Slots :
        Finished(s) /\ calls[s].alone =>
            /\ calls[s].result.kind = "return"
            /\ calls[s].after = calls[s].before \o
                   <<[from |-> "user", content |-> calls[s].message],
                     [from |-> "assistant",
                      content |-> calls[s].result.value]>>

\* C2: process_message returns a string to its caller whatever failed:
\* the save of the message, the read, the provider call, the reply save.
C2_AlwaysReturns ==
    \A s \in Slots :
        Finished(s) =>
            /\ calls[s].result.kind = "return"
            /\ calls[s].result.value \in ReplyTexts

\* every store call of one invocation failed, on a chat that has history
C2_Witness ==
    \E s \in Slots :
        /\ Finished(s)
        /\ calls[s].save_raised /\ calls[s].read_failed
        /\ calls[s].reply_raised
        /\ calls[s].before # <<>>
        /\ calls[s].result.kind = "return"

\* C3: the prompt handed to get_completion is the message text of the
\* call, also when the save failed or the read failed or returned nothing.
C3_PromptIsMessage ==
    \A s \in Slots :
        ProviderCalled(s) =>
            Last(calls[s].request) =
                [role |-> "user", content |-> calls[s].message]

\* C4: when get_completion returns a text, process_message returns that
\* text, whether or not the saves or the read failed.
C4_ReplyIsCompletion ==
    \A s \in Slots :
        Finished(s) /\ GetCompletion(calls[s].provider, "r").kind = "return"
            => calls[s].result = Return(calls[s].response)

\* a completion is returned although both saves and the read failed
C4_Witness ==
    \E s \in Slots :
        /\ Finished(s)
        /\ calls[s].provider = "completion"
        /\ calls[s].save_raised /\ calls[s].read_failed
        /\ calls[s].reply_raised
        /\ calls[s].result = Return("r")

\* C5: the turns sent to the provider are the up-to-5 most recent stored
\* messages as they stand after the inbound message was saved, in order,
\* each once, the inbound message being the final turn only.
C5_TurnsAreWindow ==
    \A s \in Slots :
        ProviderCalled(s) /\ ~calls[s].save_raised /\ ~calls[s].read_failed
        =>  LET window == SliceLast(calls[s].atRead, HistoryLimit)
            IN  /\ calls[s].request =
                       [i \in 1..Len(window) |->
                           [role |-> window[i].from,
                            content |-> window[i].content]]
                /\ Last(calls[s].request) =
                       [role |-> "user", content |-> calls[s].message]

\* C6: after n saves in a row to a chat, get_conversation(chat, n) returns
\* the n messages with their roles and contents in the order saved.
C6_ReadReturnsSaved ==
    \A c \in ChatIds :
        Clean(c) /\ Len(saved[c]) > 0 =>
            GetConversation(c, Len(saved[c]), "ok") = Return(saved[c])

\* C7: for k > 0, get_conversation(chat, k) returns the last min(k, n) of
\* the n stored messages, oldest first.
C7_LastK ==
    \A c \in ChatIds, k \in Limits :
        k > 0 /\ Clean(c) =>
            GetConversation(c, k, "ok") =
                Return(SliceLast(StoredHistory(c), k))

\* C8: after one or more successful resets of a chat, get_conversation
\* returns the empty sequence for every limit, limit 0 included.
C8_ResetEmpties ==
    \A c \in ChatIds, k \in Limits :
        resetRun[c] >= 1 => GetConversation(c, k, "ok") = Return(<<>>)

\* C9: with limit <= 0, get_conversation returns the whole stored history
\* of the chat, oldest first.
C9_Unbounded ==
    \A c \in ChatIds, k \in Limits :
        k <= 0 /\ Clean(c) =>
            GetConversation(c, k, "ok") = Return(StoredHistory(c))

\* C10: a save that returns without error makes the chat's stored history
\* one message longer and keeps every earlier message in place.
C10_SaveAppendsOne ==
    [][\A c \in ChatIds :
          Len(saved'[c]) = Len(saved[c]) + 1 =>
              LET old == StoredHistory(c)
                  new == StoredIn(conversations', table', c)
              IN  /\ Len(new) = Len(old) + 1
                  /\ SubSeq(new, 1, Len(old)) = old]_vars

\* C11: a read of a chat, with a limit of at least the length of its
\* history, made while a reset of that chat is under way or just after it
\* ended, returns the whole history as it was before the reset or nothing,
\* never a non-empty proper part of it.
C11_ResetAtomic ==
    \A k \in Limits :
        /\ reset.pc = "deleting" \/ reset.result.kind # "none"
        /\ k > 0 /\ k >= Len(reset.before)
        =>  LET r == GetConversation(reset.chat_id, k, "ok")
            IN  /\ r.kind = "return"
                /\ Len(r.value) \in {0, Len(reset.before)}

\* C13: get_conversation returns the empty sequence and raises nothing
\* whenever its read fails: store error, rejected parameters, unreachable
\* store.
C13_ReadFailsSoftly ==
    \A c \in ChatIds, k \in Limits, o \in StoreOutcomes :
        LET r == GetConversation(c, k, o)
        IN  /\ r.kind = "return"
            /\ o # "ok" => r.value = <<>>

\* C14: process_message returns a non-empty string in every execution.
C14_NonEmptyReply ==
    \A s \in Slots :
        Finished(s) =>
            /\ calls[s].result.kind = "return"
            /\ calls[s].result.value # ""

\* C15: get_completion gives the timeout text for a connect or read
\* timeout, the connection text for a connection failure, the
\* authentication text for an HTTP 401 answer and the communication-error
\* text for any other HTTP error status; the four texts differ pairwise.
C15_FallbackByClass ==
    /\ \A s \in Slots :
        ProviderCalled(s) =>
            LET p == calls[s].provider
                r == calls[s].completion
            IN  /\ p \in {"ConnectTimeout", "ReadTimeout"}
                       => r = Return(TimeoutText)
                /\ p = "ConnectionError" => r = Return(ConnectionText)
                /\ p = "HTTP401" => r = Return(AuthText)
                /\ p = "HTTP500" => r = Return(CommunicationText)
    /\ Cardinality({TimeoutText, ConnectionText, AuthText,
                    CommunicationText}) = 4

\* C16: get_completion returns a string for every outcome of the provider
\* request, an answer without a usable first completion included.
C16_CompletionNeverRaises ==
    \A s \in Slots :
        ProviderCalled(s) => calls[s].completion.kind = "return"

\* C17: a get_completion invocation sends exactly one request to the
\* provider whatever the outcome, and a process_message invocation calls
\* get_completion at most once.
C17_NoRetry ==
    \A s \in Slots :
        /\ calls[s].completions <= 1
        /\ calls[s].posts = calls[s].completions
        /\ ProviderCalled(s) => calls[s].completions = 1

\* a call has ended whose single provider request failed
C17_Witness ==
    \E s \in Slots :
        /\ Finished(s)
        /\ calls[s].provider \in {"ReadTimeout", "HTTP500", "bad_body"}
        /\ calls[s].posts = 1

\* C18: the content of the reply message a process_message call has stored
\* is the string the call returns; when the provider timed out, both are
\* the timeout text.
C18_StoredReplyIsReturned ==
    \A s \in Slots :
        Finished(s) /\ calls[s].completion.kind = "return"
        =>  /\ calls[s].provider \in {"ConnectTimeout", "ReadTimeout"}
                   => calls[s].result = Return(TimeoutText)
            /\ ~calls[s].reply_raised =>
                   /\ calls[s].after # <<>>
                   /\ Last(calls[s].after).content = calls[s].result.value

\* the provider timed out and the timeout text was stored and returned
C18_Witness ==
    \E s \in Slots :
        /\ Finished(s)
        /\ calls[s].provider = "ReadTimeout"
        /\ ~calls[s].reply_raised
        /\ calls[s].before # <<>>
        /\ Last(calls[s].after).content = TimeoutText
        /\ calls[s].result = Return(TimeoutText)

\* C12: the confirmation of a reset is sent to the chat, on the webhook
\* and on polling, only after reset_conversation returned without error
\* and emptied the chat; a reset whose delete failed raises to the handler,
\* which then sends nothing and ends with the error.
C12_ResetFailureSurfaced ==
    /\ \A i \in DOMAIN outbox :
           outbox[i].text = ResetText =>
               /\ update.branch = "reset"
               /\ outbox[i].chat_id = update.chat_id
               /\ reset.result = Return("None")
               /\ resetRun[update.chat_id] >= 1
    /\ update.branch = "reset" /\ reset.chat_id = update.chat_id
          /\ reset.result.kind # "none" /\ resetRun[update.chat_id] = -1
          => reset.result.kind = "raise"
    /\ update.branch = "reset" /\ update.pc = "returned"
          /\ reset.result.kind = "raise"
          => update.result.kind = "raise" /\ outbox = <<>>

\* a /reset whose batch delete failed half-way has ended with the error
C12_Witness ==
    /\ update.branch = "reset" /\ update.pc = "returned"
    /\ resetRun[update.chat_id] = -1
    /\ StoredHistory(update.chat_id) # <<>>
    /\ reset.result = Raise("ClientError")
    /\ update.result.kind = "raise"
    /\ outbox = <<>>

\* C19 as stated: the webhook puts every update in exactly one of the
\* classes command, free_text, callback_interaction, and an unknown
\* command is a no-op answered with {status: ok}.
C19_ExactlyOneClass ==
    update.transport = "webhook" =>
        /\ update.class \in {"command", "free_text", "callback_interaction"}
        /\ update.class = "command"
              /\ update.text \notin {"/start", "/chat", "/reset", "/help"}
              => outbox = <<>> /\ update.result = StatusOk

\* C19, amended: the webhook puts an update that carries a message or a
\* callback query in exactly one class (a message is a command if its text
\* starts with '/', else free text) and an update that carries neither in
\* none; it takes a branch of that class only; an update of no class and a
\* command other than /start, /chat, /reset, /help change nothing, send
\* nothing, call neither the relay nor the adapter, and are answered with
\* {status: ok}.
C19_WebhookDispatch ==
    [][update'.seq = update.seq + 1 /\ update'.transport = "webhook" =>
        /\ update'.class =
              IF "message" \in update'.keys
              THEN IF update'.text \in SlashTexts THEN "command"
                   ELSE "free_text"
              ELSE IF "callback_query" \in update'.keys
              THEN "callback_interaction"
              ELSE "none"
        /\ update'.branch \in
              CASE update'.class = "command" ->
                       {"start", "chat", "reset", "help", "none"}
                [] update'.class = "free_text" -> {"relay"}
                [] update'.class = "callback_interaction" ->
                       {"positive", "negative", "none"}
                [] OTHER -> {"none"}
        /\ update'.class = "none"
              \/ (update'.class = "command"
                    /\ update'.text \notin
                           {"/start", "/chat", "/reset", "/help"})
              =>  /\ update'.pc = "returned"
                  /\ update'.result = StatusOk
                  /\ outbox' = <<>>
                  /\ UNCHANGED <<conversations, table, chat_mode, started,
                                 directs, saved, resetRun>>]_vars

\* a command that only opens with a known one was answered as a no-op
C19_Witness ==
    /\ update.transport = "webhook"
    /\ update.class = "command"
    /\ update.text = "/reset now"
    /\ update.pc = "returned"
    /\ update.result = StatusOk
    /\ outbox = <<>>

\* C20: for a free-text webhook update the handler calls process_message
\* once, with the chat id and text of the update, then calls send_message
\* once, for that chat and with the text process_message returned, and
\* answers {status: ok}; nothing is sent before process_message returned.
C20_FreeTextRelayed ==
    update.transport = "webhook" /\ update.class = "free_text" =>
        /\ update.pc = "free_text" => outbox = <<>>
        /\ update.pc = "returned" =>
              /\ started = update.started_at + 1
              /\ update.result = StatusOk
              /\ \E s \in Slots :
                    /\ Finished(s)
                    /\ calls[s].chat_id = update.chat_id
                    /\ calls[s].message = update.text
                    /\ calls[s].result.kind = "return"
                    /\ outbox = <<PlatformCall("send_message",
                                      update.chat_id,
                                      calls[s].result.value)>>

\* a free-text webhook update was answered after the provider failed
C20_Witness ==
    /\ update.transport = "webhook" /\ update.class = "free_text"
    /\ update.pc = "returned"
    /\ update.text = "a"
    /\ \E s \in Slots :
          /\ Finished(s)
          /\ calls[s].provider = "bad_body"
          /\ outbox = <<PlatformCall("send_message", update.chat_id,
                                     GenerationFallback)>>

\* the calls of a handler that carry a text to the chat
IsReply(platform_call) == platform_call.via \in {"send_message", "reply_text"}
Replies(box) == SelectSeq(box, IsReply)

\* C21: handling a callback interaction, on either transport, starts no
\* process_message call (hence no provider request) and changes no stored
\* conversation; the tags feedback_positive and feedback_negative are
\* answered with their canned text and with nothing else (a handler that
\* a failing platform call ended early sends at most that text), any other
\* tag with no text at all.
C21_CallbackNoRelay ==
    [][update'.seq = update.seq + 1
         /\ update'.class = "callback_interaction" =>
        /\ UNCHANGED <<conversations, table, started, saved, directs>>
        /\ \A s \in Slots : calls'[s].pc = "idle"
        /\ update'.pc = "returned"
        /\ LET canned ==
                   IF update'.text = "feedback_positive"
                   THEN <<FeedbackPositiveText>>
                   ELSE IF update'.text = "feedback_negative"
                   THEN <<FeedbackNegativeText>>
                   ELSE <<>>
               replies == Replies(outbox')
               texts == [i \in 1..Len(replies) |-> replies[i].text]
           IN  /\ \A i \in 1..Len(replies) :
                      replies[i].chat_id = update'.chat_id
               /\ texts \in {<<>>, canned}
               /\ update'.result.kind = "return" => texts = canned]_vars

\* a feedback_positive callback on polling was answered with its text
C21_Witness ==
    /\ update.class = "callback_interaction"
    /\ update.transport = "polling"
    /\ update.text = "feedback_positive"
    /\ update.pc = "returned"
    /\ Len(outbox) = 3
    /\ outbox[3] = PlatformCall("reply_text", update.chat_id,
                                FeedbackPositiveText)

\* C22: POST /update answers {status: ok} for every update whose body was
\* decoded, handled or skipped.
C22_UpdateAlwaysOk ==
    update.transport = "webhook" /\ update.pc = "returned" =>
        RouteHandleUpdate(update.result) = StatusOk

\* C23: on both transports, once a free-text message or a /chat command
\* of a chat has been handled the chat mode flag of that chat is true,
\* and a flag that is true stays true.
C23_ChatModeSet ==
    [][/\ update'.pc = "returned"
          /\ (update'.class = "free_text" \/ update'.branch = "chat")
          => DictGet(chat_mode', update'.chat_id, FALSE) = TRUE
       /\ \A c \in ChatIds :
              DictGet(chat_mode, c, FALSE) = TRUE
              => DictGet(chat_mode', c, FALSE) = TRUE]_vars

\* C24: two gateways that receive the same updates and differ only in
\* their initial chat mode flags do the same on every update: same branch,
\* same class and result, same platform calls.  (What follows the entry of
\* a handler, process_message, the adapter calls and the sending of the
\* reply, reads the update and the store only.)
C24_FlagNoRouting ==
    [][update'.seq = update.seq + 1 =>
        /\ twin'.update = update'
        /\ twin'.outbox = outbox']_vars

\* free text was relayed for a chat whose flag was set in one gateway and
\* not in the other
C24_Witness ==
    /\ update.pc = "returned"
    /\ update.class = "free_text"
    /\ update.transport = "webhook"
    /\ update.chat_id \notin DOMAIN chat_mode
    /\ update.chat_id \in DOMAIN twin.chat_mode
    /\ \E s \in Slots : calls[s].pc = "done" /\ calls[s].provider # "none"
    /\ Replies(outbox) # <<>>

\* the step is one of an operation called for chat c: a save for c that
\* returned, a reset of c, or a process_message call for c moving on
StepFor(c) ==
    \/ saved'[c] # saved[c]
    \/ reset'.chat_id = c /\ reset' # reset
    \/ \E s \in Slots : calls'[s].chat_id = c /\ calls'[s].pc # calls[s].pc

\* C25: a step of save_message, save_response, reset_conversation or
\* process_message changes the stored history of no chat other than the
\* one it was called for, whatever the order of the operations on the
\* chats.
C25_PerChatIsolation ==
    [][\A b \in ChatIds :
          StoredIn(conversations', table', b) # StoredHistory(b)
          => StepFor(b)]_vars

\* one chat was reset while the other kept the messages saved for it
C25_Witness ==
    \E a \in ChatIds : \E b \in ChatIds \ {a} :
        /\ reset.pc = "idle" /\ reset.result.kind = "return"
        /\ reset.chat_id = a
        /\ reset.before # <<>>
        /\ StoredHistory(a) = <<>>
        /\ Len(StoredHistory(b)) >= 2
        /\ StoredHistory(b) = saved[b]

\* C26: a process_message call that waits for the provider or for the
\* store does not keep the handler of another update from starting
\* (Exclusive is what every handler needs to start).
C26_NoCallBlocks ==
    \A s \in Slots : InProgress(s) => Exclusive

\* C27: a startup activates at most one inbound channel: the polling loop
\* is started only outside Lambda, the registration of the webhook is
\* attempted only in Lambda, and updates are handled from the activated
\* channel only.
C27_OneChannel ==
    /\ deployment.polling => ~deployment.is_lambda
    /\ deployment.webhook # "none" => deployment.is_lambda
    /\ ~(deployment.polling /\ deployment.webhook # "none")
    /\ update.transport = "polling" => ~deployment.is_lambda
    /\ update.transport = "webhook" => deployment.is_lambda

\* outside Lambda the startup has started polling, and an update that the
\* updater fetched has been handled
C27_Witness ==
    /\ deployment.pc = "started"
    /\ ~deployment.is_lambda
    /\ deployment.polling /\ deployment.webhook = "none"
    /\ update.transport = "polling" /\ update.pc = "returned"

\* the fixed texts of get_completion and of process_message
FallbackTexts ==
    {TimeoutText, ConnectionText, AuthText, CommunicationText,
     RequestErrorText, GenerationFallback, UnexpectedFallback}

\* what str() of an exception of the store or of the provider request
\* shows: its class
ExceptionTexts == ProviderOutcomes \cup StoreOutcomes \cup {"KeyError"}

\* C28: process_message returns the content the provider gave as its
\* completion when the request succeeded, and a fixed fallback text in
\* every other case; the text of an exception is never returned.
C28_ReplyIsCompletionOrFallback ==
    \A s \in Slots :
        Finished(s) =>
            /\ calls[s].result.kind = "return"
            /\ calls[s].result.value \notin ExceptionTexts
            /\ IF calls[s].provider = "completion"
               THEN \E t \in ProviderTexts : calls[s].result.value = t
               ELSE calls[s].result.value \in FallbackTexts

\* the provider answered HTTP 500 and every store call failed: the reply
\* is the communication-error text
C28_Witness ==
    \E s \in Slots :
        /\ Finished(s)
        /\ calls[s].provider = "HTTP500"
        /\ calls[s].save_raised /\ calls[s].read_failed
        /\ calls[s].result = Return(CommunicationText)

\* the order of the steps of one process_message call: save attempt, read,
\* provider call, save of the reply, return (a slot is taken again by a
\* later call once its call has returned)
StepOrder ==
    {<<"idle", "saved">>, <<"done", "saved">>, <<"done", "idle">>,
     <<"saved", "read">>, <<"read", "completed">>, <<"read", "done">>,
     <<"completed", "done">>}

\* C29: each process_message call goes through its steps in the order
\* save attempt, read, provider call, save of the reply, return, each at
\* most once: the provider is called only after the save attempt and the
\* read, and the reply is saved only after the provider call has returned.
C29_StepsInOrder ==
    [][\A s \in Slots :
          /\ calls'[s].pc # calls[s].pc
             => <<calls[s].pc, calls'[s].pc>> \in StepOrder
          /\ calls'[s].provider # "none"
             => calls'[s].pc \in {"completed", "done"}
          /\ calls'[s].completions <= 1 /\ calls'[s].posts <= 1
          /\ calls[s].pc = "saved" => calls[s].provider = "none"
          /\ calls[s].pc = "completed" /\ calls'[s].pc = "done"
             => /\ calls[s].completion.kind = "return"
                /\ calls'[s].result = Return(calls[s].completion.value)
          /\ calls[s].pc = "read" /\ calls'[s].pc = "done"
             => /\ calls'[s].completion.kind = "raise"
                /\ StoredIn(conversations', table', calls[s].chat_id)
                       = StoredHistory(calls[s].chat_id)]_vars

\* a call went through all five steps with no failure
C29_Witness ==
    \E s \in Slots :
        /\ Finished(s)
        /\ calls[s].provider = "completion"
        /\ calls[s].completions = 1
        /\ ~calls[s].save_raised /\ ~calls[s].read_failed
        /\ ~calls[s].reply_raised
        /\ Len(calls[s].after) = Len(calls[s].atRead) + 1

\* C30: the turns handed to the provider before the prompt keep their
\* author: a stored message that is the reply of an earlier process_message
\* call becomes a turn of role assistant, a stored user message a turn of
\* role user.  (Replies are drawn from Completions and user messages from
\* other texts, so the content of a stored message tells which it is.)
C30_RoleFidelity ==
    \A s \in Slots :
        ProviderCalled(s) /\ ~calls[s].read_failed =>
            LET window == SliceLast(calls[s].atRead, HistoryLimit)
                turns == SliceButLast(calls[s].request)
            IN  \A i \in 1..Len(turns) :
                    i <= Len(window) =>
                        turns[i].role =
                            IF window[i].content \in Completions
                            THEN "assistant" ELSE "user"

\* C31: on the partitioned store, get_conversation gives every item it
\* reads back as a message whose sender is the From attribute written by
\* save_message or save_response and whose content is the Content
\* attribute written.
C31_DynamoRoundTrip ==
    backend = "dynamo" =>
        \A c \in ChatIds :
            LET r == GetConversation(c, DefaultLimit, "ok")
                written == SliceLast(StoredHistory(c), DefaultLimit)
            IN  /\ r.kind = "return"
                /\ Len(r.value) = Len(written)
                /\ \A i \in 1..Len(written) :
                       /\ r.value[i].from = written[i].from
                       /\ r.value[i].content = written[i].content

\* C32: when two process_message calls run at once on a shared store, the
\* prompt of each is its own message text, however their saves and reads
\* interleave (every save and read succeeds).
C32_OwnPromptWhenConcurrent ==
    processes = 2 =>
        \A s \in Slots :
            ProviderCalled(s) /\ ~calls[s].alone
                /\ ~calls[s].save_raised /\ ~calls[s].read_failed =>
                Last(calls[s].request).role = "user"
                /\ Last(calls[s].request).content = calls[s].message

\* C33: a process_message call that has started returns a reply in the
\* end, given that every store call and the provider call comes back; a
\* provider timeout is answered with a fallback text, after one request.
C33_EventuallyReturns ==
    /\ (\E s \in Slots : calls[s].pc = "saved")
           ~> (\E s \in Slots :
                  calls[s].pc = "done" /\ calls[s].result.kind = "return")
    /\ [](\A s \in Slots :
            calls[s].provider \in {"ConnectTimeout", "ReadTimeout"}
            => /\ calls[s].posts = 1
               /\ calls[s].completion = Return(TimeoutText)
               /\ calls[s].pc \in {"completed", "done"})

\* the provider request ran into its read timeout after a failed read, and
\* the call has returned the timeout text
C33_Witness ==
    \E s \in Slots :
        /\ Finished(s)
        /\ calls[s].provider = "ReadTimeout"
        /\ calls[s].read_failed
        /\ calls[s].posts = 1
        /\ calls[s].result = Return(TimeoutText)

IsPrefix(a, b) == Len(a) <= Len(b) /\ SubSeq(b, 1, Len(a)) = a

\* C34: the stored history of a chat only grows at its end: whatever a
\* step other than one of reset_conversation for the chat does, the
\* sequence stored before it is a prefix of the sequence stored after it.
C34_AppendOnly ==
    [][\A c \in ChatIds :
          ~(reset'.chat_id = c /\ reset' # reset)
          => IsPrefix(StoredHistory(c),
                      StoredIn(conversations', table', c))]_vars

\* C35: stop() never raises and attempts updater stop (if there is an
\* updater), application stop and application shutdown, in this order,
\* however each of them ends, also when the application has no updater.
C35_StopAttemptsAll ==
    deployment.pc = "stopped" /\ ~deployment.is_lambda =>
        /\ deployment.stop.result.kind = "return"
        /\ deployment.stop.attempted =
               IF deployment.has_updater THEN StopSteps
               ELSE SubSeq(StopSteps, 2, 3)

\* C36: setup_webhook returns True only if, within one pass, the existing
\* webhook was seen absent or was deleted before setWebhook, setWebhook
\* answered 200 and a later getWebhookInfo reported the configured URL;
\* delete_webhook returns True only when the platform holds no URL.
C36_TrueOnlyIfVerified ==
    /\ deployment.hook.result = Return("True") =>
          /\ deployment.hook.cleared \in {"absent", "deleted"}
          /\ deployment.hook.set200
          /\ deployment.hook.verified
    /\ deployment.hook.deleted_with \in {"n/a", ""}

\* C37: setup_webhook ends: it makes at most 3 passes and sends at most 3
\* setWebhook requests, never raises, returns False when no pass was
\* verified, and returns False with no setWebhook sent when API_URL is
\* not set.
C37_SetupTerminates ==
    /\ [](/\ deployment.hook.attempt <= 3
          /\ deployment.hook.sets <= 3
          /\ deployment.hook.sets <= deployment.hook.attempt
          /\ deployment.hook.result.kind # "raise"
          /\ deployment.hook.pc = "returned" =>
                /\ deployment.hook.result.kind = "return"
                /\ ~deployment.hook.verified =>
                      deployment.hook.result = Return("False")
                /\ ~deployment.hook.api_url =>
                      /\ deployment.hook.result = Return("False")
                      /\ deployment.hook.sets = 0)
    /\ (deployment.hook.pc # "idle") ~> (deployment.hook.pc = "returned")

\* the third pass has failed after a third setWebhook request
C37_Witness ==
    /\ deployment.hook.pc = "returned"
    /\ deployment.hook.attempt = 3
    /\ deployment.hook.sets = 3
    /\ deployment.hook.result = Return("False")

\* what a dispatch decides: to call process_message, to reset the
\* conversation, to send a static reply
Decision(d) ==
    [relay |-> d.branch = "relay",
     reset |-> d.branch = "reset",
     static |-> d.branch \in {"start", "chat", "reset", "help",
                              "positive", "negative"}]

\* the handler at work, or the one that has just returned, took in u
TookIn(u) ==
    /\ update.pc # "idle"
    /\ update.keys = DOMAIN u
    /\ LET d == Dispatch(update.transport, u)
       IN  /\ update.class = d.class
           /\ update.branch = d.branch
           /\ update.chat_id = d.chat_id
           /\ update.username = d.username
           /\ update.text = d.text

\* C38: for the update a handler takes in, webhook dispatch and polling
\* dispatch decide alike on calling process_message, on resetting the
\* conversation and on sending a static reply.
C38_TransportsRouteAlike ==
    \A u \in Updates :
        TookIn(u) =>
            Decision(WebhookDispatch(u)) = Decision(PollingDispatch(u))

====
